---- MODULE Spec2Model ----
(***************************************************************************)
(* Model of the rental aggregate of medusa-starter: RentalService          *)
(* (src/src/services/rental.ts) and RentalVariantService                   *)
(* (src/src/services/rental-variant.ts) over the persisted rows of         *)
(* Rental, RentalOption, RentalVariant, RentalOptionValue and MoneyAmount. *)
(*                                                                         *)
(* The database is one record `db` of row sets.  Every service method is   *)
(* an operator from a database and the call's arguments to a result        *)
(* [err, db, events, ret]: the error kind thrown ("none" when the call     *)
(* returns), the rows as the method's statements left them, the events     *)
(* handed to the event bus and the returned value.  atomicPhase_ is the    *)
(* transaction around a method called from outside: a throw restores the   *)
(* rows of the database the call started from.                             *)
(*                                                                         *)
(* Reads follow the ORM: a find and a relation join return only rows whose *)
(* deleted_at is null.                                                     *)
(***************************************************************************)
EXTENDS Integers, Sequences, FiniteSets, TLC

\* ---------------------------------------------------------------- bounds
MaxRentals == 2
MaxOptions == 2
MaxVariants == 2
MaxCreateOptions == 2
MaxVariantOptions == 2
MaxL == 2
MaxShortL == 1
MaxVariantRentals == 1
MaxRequestVariants == 2
MaxSkip == 2
MaxTake == 2
MaxCollections == 3
MaxTags == 2
MaxValues == 4

\* ------------------------------------------------------------ vocabulary
NoId == 0
NoRank == -1
DefaultValue == "Default Value"
Titles == {"Size", "size", "Color"}
Values == {"a", "b"}
Regions == {"reg"}
Amounts == {10}
PriceRegions == {"reg", "reg2"}
PriceAmounts == {10, 20}
PriceListId == 1
Undefined == "undefined"
Null == "null"
TagValues == {"red"}
TypeValues == {"bike"}
RentalTitles == {"", "Tent"}
Thumbnails == {"", "b.png"}
ImageUrls == {"a.png"}

\* String.prototype.toUpperCase on the titles of the model
toUpperCase(t) ==
  CASE t = "Size" -> "SIZE"
    [] t = "size" -> "SIZE"
    [] t = "Color" -> "COLOR"
    [] OTHER -> t

VARIABLES db, last, request

vars == <<db, last, request>>

\* --------------------------------------------------------------- helpers
\* generateEntityId: an id no row of the table carries.  The ids of option
\* values are counted within their variant and option, those of prices
\* within their variant, region and price list, and
\* db.removed keeps the ids of the variants deleted in the running
\* transaction, which no variant created in it gets again.
NewId(used) == CHOOSE i \in 1..(Cardinality(used) + 1) : i \notin used

Ok(d, ev, ret) == [err |-> "none", db |-> d, events |-> ev, ret |-> ret]

Fail(e, d, ev) == [err |-> e, db |-> d, events |-> ev, ret |-> NoId]

\* the entries of a list of {option_id, value} for one option, in order:
\* Array.prototype.find returns the first of them, undefined when there is none
FindOption(opts, optionId) ==
  LET Same(o) == o.option_id = optionId IN SelectSeq(opts, Same)

\* ------------------------------------------------------------- relations
\* findOne({ id }) on Rental
FindRental(d, rentalId) == {r \in d.rentals : r.id = rentalId /\ ~r.deleted}

\* rental.options
RentalOptions(d, rentalId) ==
  {o \in d.options : o.rental_id = rentalId /\ ~o.deleted}

\* rental.variants
RentalVariants(d, rentalId) ==
  {v \in d.variants : v.rental_id = rentalId /\ ~v.deleted}

\* variant.options
VariantOptions(d, variantId) ==
  {x \in d.values : x.variant_id = variantId /\ ~x.deleted}

\* ------------------------------------------------- RentalVariantService
\* setRegionPrice: the default price of the region is updated, or created
\* setRegionPrice with a fault: a row is created whatever rows there are
setRegionPrice_AlwaysCreate(d, variantId, price) ==
  [d EXCEPT !.prices = @ \cup
     {[id |-> NewId({p.id : p \in {q \in d.prices :
                         /\ q.variant_id = variantId
                         /\ q.region_id = price.region_id
                         /\ q.price_list_id = NoId}}),
       variant_id |-> variantId,
       region_id |-> price.region_id, amount |-> price.amount,
       price_list_id |-> NoId, deleted |-> FALSE]}]

setRegionPrice(d, variantId, price) ==
  LET found == {p \in d.prices : /\ p.variant_id = variantId
                                 /\ p.region_id = price.region_id
                                 /\ p.price_list_id = NoId
                                 /\ ~p.deleted}
  IN IF found = {}
     THEN [d EXCEPT !.prices = @ \cup
             {[id |-> NewId({p.id : p \in {q \in d.prices :
                         /\ q.variant_id = variantId
                         /\ q.region_id = price.region_id
                         /\ q.price_list_id = NoId}}),
               variant_id |-> variantId,
               region_id |-> price.region_id, amount |-> price.amount,
               price_list_id |-> NoId, deleted |-> FALSE]}]
     ELSE LET moneyAmount == CHOOSE p \in found : TRUE
          IN [d EXCEPT !.prices = (@ \ {moneyAmount}) \cup
                {[moneyAmount EXCEPT !.amount = price.amount]}]

RECURSIVE SetPrices(_, _, _)
\* the loop over the prices of a created variant
SetPrices(d, variantId, prices) ==
  IF prices = <<>> THEN d
  ELSE SetPrices(setRegionPrice(d, variantId, Head(prices)), variantId, Tail(prices))

\* addOptionValue: a new row, whatever rows the pair already has
addOptionValue(d, variantId, optionId, optionValue) ==
  [d EXCEPT !.values = @ \cup
     {[id |-> NewId({x.id : x \in {y \in d.values : /\ y.variant_id = variantId
                                                    /\ y.option_id = optionId}}),
       variant_id |-> variantId,
       option_id |-> optionId, value |-> optionValue, deleted |-> FALSE]}]

\* updateOptionValue: NotFound without a row for the pair
updateOptionValue(d, variantId, optionId, optionValue) ==
  LET found == {x \in d.values : /\ x.variant_id = variantId
                                 /\ x.option_id = optionId
                                 /\ ~x.deleted}
  IN IF found = {} THEN Fail("NotFound", d, <<>>)
     ELSE LET rentalOptionValue == CHOOSE x \in found : TRUE
          IN Ok([d EXCEPT !.values = (@ \ {rentalOptionValue}) \cup
                   {[rentalOptionValue EXCEPT !.value = optionValue]}],
                <<>>, rentalOptionValue.id)

\* deleteOptionValue: the row found for the pair is soft-removed; nothing
\* happens without a row for the pair
deleteOptionValue(d, variantId, optionId) ==
  LET found == {x \in d.values : /\ x.variant_id = variantId
                                 /\ x.option_id = optionId
                                 /\ ~x.deleted}
  IN IF found = {} THEN Ok(d, <<>>, NoId)
     ELSE LET rentalOptionValue == CHOOSE x \in found : TRUE
          IN Ok([d EXCEPT !.values = (@ \ {rentalOptionValue}) \cup
                   {[rentalOptionValue EXCEPT !.deleted = TRUE]}],
                <<>>, NoId)

RECURSIVE SaveOptions(_, _, _)
\* variantRepo.save of a variant created with options: the cascade inserts
\* one RentalOptionValue per entry of the list
SaveOptions(d, variantId, opts) ==
  IF opts = <<>> THEN d
  ELSE SaveOptions(addOptionValue(d, variantId, Head(opts).option_id, Head(opts).value),
                   variantId, Tail(opts))

\* OptionsMatch with a fault: the length check without the check of each option
OptionsMatch_LengthOnly(options, opts) == Cardinality(options) = Len(opts)

\* the length check and the forEach of create
OptionsMatch(options, opts) ==
  /\ Cardinality(options) = Len(opts)
  /\ \A option \in options : FindOption(opts, option.id) # <<>>

\* VariantExists with a fault: a variant one of whose option values is the
\* value given for its option
VariantExists_Some(d, variants, opts) ==
  \E v \in variants :
    \E option \in VariantOptions(d, v.id) :
      LET variantOption == FindOption(opts, option.option_id)
      IN /\ variantOption # <<>>
         /\ option.value = Head(variantOption).value

\* rental.variants.find(...) of create: a variant all of whose option values
\* are the values given for their options
VariantExists(d, variants, opts) ==
  \E v \in variants :
    \A option \in VariantOptions(d, v.id) :
      LET variantOption == FindOption(opts, option.option_id)
      IN /\ variantOption # <<>>
         /\ option.value = Head(variantOption).value

\* if (!rest.variant_rank) rest.variant_rank = rental.variants.length
DefaultRank(rank, variants) ==
  IF rank = NoRank \/ rank = 0 THEN Cardinality(variants) ELSE rank

\* create from the line after rentalRepo.findOne on: loaded are the rows as
\* the query read them, d the rows when the checks are done and the variant
\* is saved
CreateAfterLoad(loaded, d, rentalId, variant) ==
  IF FindRental(loaded, rentalId) = {}
  THEN Fail("TypeError", d, <<>>)
  ELSE
    LET options == RentalOptions(loaded, rentalId)
        variants == RentalVariants(loaded, rentalId)
    IN IF ~OptionsMatch(options, variant.options)
       THEN Fail("InvalidData", d, <<>>)
       ELSE IF VariantExists(loaded, variants, variant.options)
       THEN Fail("DuplicateError", d, <<>>)
       ELSE
         LET id == NewId({v.id : v \in d.variants} \cup d.removed)
             row == [id |-> id, rental_id |-> rentalId,
                     variant_rank |-> DefaultRank(variant.variant_rank, variants),
                     deleted |-> FALSE]
             d1 == [d EXCEPT !.variants = @ \cup {row}]
             d2 == SaveOptions(d1, id, variant.options)
             d3 == SetPrices(d2, id, variant.prices)
         IN Ok(d3, <<[name |-> "rental-variant.created", id |-> id]>>, id)

\* RentalVariantService.create(rentalId, variant), the body given to
\* atomicPhase_, when nothing is written between its query and its save
RentalVariantService_create(d, rentalId, variant) ==
  CreateAfterLoad(d, d, rentalId, variant)

RECURSIVE UpdateOptionValues(_, _, _)
\* the loop of update over update.options
UpdateOptionValues(d, variantId, opts) ==
  IF opts = <<>> THEN Ok(d, <<>>, NoId)
  ELSE LET r == updateOptionValue(d, variantId, Head(opts).option_id, Head(opts).value)
       IN IF r.err # "none" THEN r
          ELSE UpdateOptionValues(r.db, variantId, Tail(opts))

\* variant[key] = value for the keys variant_rank and rental_id of the update
AssignRest(v, update) ==
  [v EXCEPT !.variant_rank = IF "variant_rank" \in update.keys
                             THEN update.variant_rank ELSE @,
            !.rental_id = IF "rental_id" \in update.keys
                          THEN update.rental_id ELSE @]

\* RentalVariantService.update(variantId, update), the body given to
\* atomicPhase_; update.keys are the keys the update object carries
RentalVariantService_update(d, variantId, update) ==
  LET found == {v \in d.variants : v.id = variantId /\ ~v.deleted}
  IN IF found = {} THEN Fail("NotFound", d, <<>>)
     ELSE
       LET variant == CHOOSE v \in found : TRUE
           r == IF "options" \in update.keys
                THEN UpdateOptionValues(d, variantId, update.options)
                ELSE Ok(d, <<>>, NoId)
       IN IF r.err # "none" THEN r
          ELSE Ok([r.db EXCEPT !.variants = (@ \ {variant}) \cup
                                  {AssignRest(variant, update)}],
                  <<[name |-> "rental-variant.updated", id |-> variantId]>>,
                  variantId)

\* ---------------------------------------------------------- transactions
\* atomicPhase_ with a fault: the rows the work wrote are kept when it throws
atomicPhase_NoRollback(d, res) == res

\* atomicPhase_ of a call made outside a transaction: the work runs in a new
\* transaction, which a throw rolls back
atomicPhase_(d, res) == IF res.err = "none" THEN res ELSE [res EXCEPT !.db = d]

\* --------------------------------------------------------- RentalService
RECURSIVE SaveRentalOptions(_, _, _)
\* the optionRepo.create and save of every declared option of create
SaveRentalOptions(d, rentalId, titles) ==
  IF titles = <<>> THEN d
  ELSE SaveRentalOptions(
         [d EXCEPT !.options = @ \cup
            {[id |-> NewId({o.id : o \in d.options}), rental_id |-> rentalId,
              title |-> Head(titles), deleted |-> FALSE]}],
         rentalId, Tail(titles))

\* the value an object gives for a key: undefined when it has no such key
Given(o, key) == IF key \in o.keys THEN o[key] ELSE Undefined

\* isDefined(val) of medusa-core-utils, for the values of the model
isDefined(val) == val # Undefined

\* !val for a string, null or undefined
Falsy(val) == val \in {Undefined, Null, ""}

\* existingTagsMap.get(value): the row that the map built from the rows
\* found holds for the value, NoId when it holds none
ExistingTag(existingTags, value) ==
  LET rows == {t \in existingTags : t.value = value}
  IN IF rows = {} THEN NoId
     ELSE (CHOOSE t \in rows : \A u \in rows : u.id <= t.id).id

RECURSIVE UpsertTagsFrom(_, _, _, _)
\* the loop of upsertTags over the tags left, with the rows found before the
\* loop and the ids of the tags upserted so far
UpsertTagsFrom(d, existingTags, tags, upsertedTags) ==
  IF tags = <<>> THEN Ok(d, <<>>, upsertedTags)
  ELSE LET aTag == ExistingTag(existingTags, Head(tags))
       IN IF aTag # NoId
          THEN UpsertTagsFrom(d, existingTags, Tail(tags), upsertedTags \cup {aTag})
          ELSE LET id == NewId({t.id : t \in d.tags})
               IN UpsertTagsFrom([d EXCEPT !.tags = @ \cup {[id |-> id, value |-> Head(tags)]}],
                                 existingTags, Tail(tags), upsertedTags \cup {id})

\* RentalTagRepository.upsertTags(tags): tags are the values of the tags
upsertTags(d, tags) ==
  LET tagsValues == {tags[i] : i \in DOMAIN tags}
      existingTags == {t \in d.tags : t.value \in tagsValues}
  IN UpsertTagsFrom(d, existingTags, tags, {})

\* RentalTypeRepository.upsertType(type): type is the value of the type, or
\* null
upsertType(d, type) ==
  IF type = Null THEN Ok(d, <<>>, NoId)
  ELSE LET existing == {t \in d.types : t.value = type}
       IN IF existing # {} THEN Ok(d, <<>>, (CHOOSE t \in existing : TRUE).id)
          ELSE LET id == NewId({t.id : t \in d.types})
               IN Ok([d EXCEPT !.types = @ \cup {[id |-> id, value |-> type]}], <<>>, id)

\* rentalRepo.save(rental) of a rental row
SaveRental(d, rental) ==
  [d EXCEPT !.rentals = {r \in @ : r.id # rental.id} \cup {rental}]

\* RentalService.create(rentalObject), the body given to atomicPhase_
CreateRentalObject(d, rentalObject) ==
  LET images == IF "images" \in rentalObject.keys THEN rentalObject.images ELSE <<>>
      tags == IF "tags" \in rentalObject.keys THEN rentalObject.tags ELSE <<>>
      options == IF "options" \in rentalObject.keys THEN rentalObject.options ELSE <<>>
      type == Given(rentalObject, "type")
      title == Given(rentalObject, "title")
      thumbnail == IF Falsy(Given(rentalObject, "thumbnail")) /\ images # <<>>
                   THEN images[1]
                   ELSE Given(rentalObject, "thumbnail")
      t == IF tags # <<>> THEN upsertTags(d, tags) ELSE Ok(d, <<>>, {})
      y == IF type # Undefined THEN upsertType(t.db, type) ELSE Ok(t.db, <<>>, NoId)
      id == NewId({r.id : r \in d.rentals})
      rental == [id |-> id, deleted |-> FALSE,
                 title |-> IF isDefined(title) THEN title ELSE Null,
                 thumbnail |-> IF isDefined(thumbnail) THEN thumbnail ELSE Null,
                 images |-> images, tags |-> t.ret, type_id |-> y.ret]
      d1 == [y.db EXCEPT !.rentals = @ \cup {rental}]
  IN Ok(SaveRentalOptions(d1, id, options), <<[name |-> "rental.created", id |-> id]>>, id)

\* RentalService.create of a rentalObject that holds options alone; titles
\* are the titles of rentalObject.options
RentalService_create(d, titles) ==
  CreateRentalObject(d, [keys |-> {"options"}, options |-> titles])

\* rentalVariantRepo.remove of the variants of the ids gone: the rows are
\* deleted and the database deletes the option values and prices that
\* reference them
RemoveVariants(d, gone) ==
  [d EXCEPT !.removed = @ \cup gone,
            !.variants = {v \in @ : v.id \notin gone},
            !.values = {x \in @ : x.variant_id \notin gone},
            !.prices = {p \in @ : p.variant_id \notin gone}]

\* RemoveMissing with a fault: no variant is removed
RemoveMissing_None(d, loaded, L) == d

\* the first loop of update: the variants of the rental that no entry of the
\* incoming list names are removed
RemoveMissing(d, loaded, L) ==
  RemoveVariants(d, {v.id : v \in {w \in loaded :
                       ~\E i \in DOMAIN L : L[i].id # NoId /\ L[i].id = w.id}})

RECURSIVE UpdateVariants(_, _, _, _, _, _, _)
\* the second loop of update, from the entry of index i (0-based) on;
\* loaded is rental.variants as retrieved, ev the events so far and
\* newVariants the ids of the variants saved so far
UpdateVariants(d, rentalId, loaded, L, i, ev, newVariants) ==
  IF i >= Len(L) THEN Ok(d, ev, newVariants)
  ELSE
    LET newVariant == L[i + 1]
        variant_rank == i
    IN IF newVariant.id # NoId
       THEN
         LET variant == {v \in loaded : v.id = newVariant.id}
         IN IF variant = {} THEN Fail("NotFound", d, ev)
            ELSE
              LET rental_id == (CHOOSE v \in variant : TRUE).rental_id
                  r == RentalVariantService_update(d, newVariant.id,
                         [keys |-> newVariant.keys \cup {"variant_rank", "rental_id"},
                          options |-> newVariant.options,
                          variant_rank |-> variant_rank,
                          rental_id |-> rental_id])
              IN IF r.err # "none" THEN Fail(r.err, r.db, ev \o r.events)
                 ELSE UpdateVariants(r.db, rentalId, loaded, L, i + 1,
                                     ev \o r.events, Append(newVariants, r.ret))
       ELSE
         LET r == RentalVariantService_create(d, rentalId,
                    [options |-> newVariant.options, prices |-> newVariant.prices,
                     variant_rank |-> variant_rank])
         IN IF r.err # "none" THEN Fail(r.err, r.db, ev \o r.events)
            ELSE UpdateVariants(r.db, rentalId, loaded, L, i + 1,
                                ev \o r.events, Append(newVariants, r.ret))

\* AssignDefined with a fault: only truthy values are assigned
AssignDefined_Truthy(rental, update) ==
  [rental EXCEPT !.title = IF ~Falsy(Given(update, "title")) THEN update.title ELSE @,
                 !.thumbnail = IF ~Falsy(Given(update, "thumbnail"))
                               THEN update.thumbnail ELSE @]

\* the loop of update over Object.entries(rest): rental[key] = value for the
\* keys whose value is defined; title and thumbnail are the scalar columns
\* of the model
AssignDefined(rental, update) ==
  [rental EXCEPT !.title = IF isDefined(Given(update, "title")) THEN update.title ELSE @,
                 !.thumbnail = IF isDefined(Given(update, "thumbnail"))
                               THEN update.thumbnail ELSE @]

\* RentalService.update(rentalId, update), the body given to atomicPhase_;
\* update.keys are the keys the update object carries
RentalService_update(d, rentalId, update) ==
  IF FindRental(d, rentalId) = {} THEN Fail("NotFound", d, <<>>)
  ELSE
    LET rental == CHOOSE x \in FindRental(d, rentalId) : TRUE
        loaded == RentalVariants(d, rentalId)
        thumbnail == IF /\ Falsy(rental.thumbnail)
                        /\ Falsy(Given(update, "thumbnail"))
                        /\ "images" \in update.keys
                        /\ update.images # <<>>
                     THEN update.images[1]
                     ELSE rental.thumbnail
        images == IF "images" \in update.keys THEN update.images ELSE rental.images
        y == IF Given(update, "type") # Undefined
             THEN upsertType(d, update.type)
             ELSE Ok(d, <<>>, rental.type_id)
        t == IF "tags" \in update.keys
             THEN upsertTags(y.db, update.tags)
             ELSE Ok(y.db, <<>>, rental.tags)
        r == IF "variants" \in update.keys
             THEN UpdateVariants(RemoveMissing(t.db, loaded, update.variants),
                                 rentalId, loaded, update.variants, 0, <<>>, <<>>)
             ELSE Ok(t.db, <<>>, <<>>)
        result == AssignDefined([rental EXCEPT !.thumbnail = thumbnail,
                                               !.images = images,
                                               !.type_id = y.ret,
                                               !.tags = t.ret], update)
    IN IF r.err # "none" THEN r
       ELSE Ok(SaveRental(r.db, result),
               r.events \o <<[name |-> "rental.updated", id |-> rentalId]>>, r.ret)

\* AddDefaultValues with a fault: no value is added for the variants
AddDefaultValues_None(d, variantIds, optionId) == d

RECURSIVE AddDefaultValues(_, _, _)
\* the loop of addOption over rental.variants
AddDefaultValues(d, variantIds, optionId) ==
  IF variantIds = {} THEN d
  ELSE LET id == CHOOSE v \in variantIds : \A w \in variantIds : v <= w
       IN AddDefaultValues(addOptionValue(d, id, optionId, DefaultValue),
                           variantIds \ {id}, optionId)

\* OptionTitleExists with a fault: the title is looked up among the options
\* of the other rentals
OptionTitleExists_OtherRentals(d, rentalId, optionTitle) ==
  \E o \in {x \in d.options : ~x.deleted} :
    o.rental_id # rentalId /\ o.title = optionTitle

\* rental.options.find((o) => o.title === optionTitle) of addOption
OptionTitleExists(d, rentalId, optionTitle) ==
  \E o \in RentalOptions(d, rentalId) : o.title = optionTitle

\* RentalService.addOption(rentalId, optionTitle), the body given to
\* atomicPhase_
RentalService_addOption(d, rentalId, optionTitle) ==
  IF FindRental(d, rentalId) = {} THEN Fail("NotFound", d, <<>>)
  ELSE IF OptionTitleExists(d, rentalId, optionTitle)
  THEN Fail("DuplicateError", d, <<>>)
  ELSE
    LET id == NewId({o.id : o \in d.options})
        d1 == [d EXCEPT !.options = @ \cup
                 {[id |-> id, rental_id |-> rentalId, title |-> optionTitle,
                   deleted |-> FALSE]}]
        d2 == AddDefaultValues(d1, {v.id : v \in RentalVariants(d, rentalId)}, id)
    IN Ok(d2, <<[name |-> "rental.updated", id |-> rentalId]>>, id)

\* RentalService.updateOption(rentalId, optionId, {title}), the body given to
\* atomicPhase_
RentalService_updateOption(d, rentalId, optionId, title) ==
  IF FindRental(d, rentalId) = {} THEN Fail("NotFound", d, <<>>)
  ELSE IF \E o \in RentalOptions(d, rentalId) :
            toUpperCase(o.title) = toUpperCase(title) /\ o.id # optionId
  THEN Fail("NotFound", d, <<>>)
  ELSE
    LET found == {o \in d.options : o.id = optionId /\ ~o.deleted}
    IN IF found = {} THEN Fail("NotFound", d, <<>>)
       ELSE LET rentalOption == CHOOSE o \in found : TRUE
            IN Ok([d EXCEPT !.options = (@ \ {rentalOption}) \cup
                     {[rentalOption EXCEPT !.title = title]}],
                  <<[name |-> "rental.updated", id |-> rentalId]>>, optionId)

\* v.options.find((o) => o.option_id === optionId)?.value; "undefined" when
\* the variant has no value for the option
OptionValueOf(d, variantId, optionId) ==
  LET found == {x \in VariantOptions(d, variantId) : x.option_id = optionId}
  IN IF found = {} THEN "undefined"
     ELSE (CHOOSE x \in found : \A y \in found : x.id <= y.id).value

\* AllEqualFirst with a fault: the values of the variants are not compared
AllEqualFirst_Unchecked(d, variants, optionId) == TRUE

\* equalsFirst.every((v) => v) of deleteOption; rental.variants comes ordered
\* by variant_rank
AllEqualFirst(d, variants, optionId) ==
  LET firstVariant == CHOOSE v \in variants :
        \A w \in variants : \/ v.variant_rank < w.variant_rank
                            \/ (v.variant_rank = w.variant_rank /\ v.id <= w.id)
      valueToMatch == OptionValueOf(d, firstVariant.id, optionId)
  IN \A v \in variants : OptionValueOf(d, v.id, optionId) = valueToMatch

\* SoftRemoveOption with a fault: the option alone is soft-removed
SoftRemoveOption_NoCascade(d, optionId) ==
  [d EXCEPT !.options = {IF o.id = optionId THEN [o EXCEPT !.deleted = TRUE] ELSE o
                          : o \in @}]

\* rentalOptionRepo.softRemove(rentalOption) of an option loaded with its
\* values: the soft-remove cascades to the values
SoftRemoveOption(d, optionId) ==
  [d EXCEPT !.options = {IF o.id = optionId THEN [o EXCEPT !.deleted = TRUE] ELSE o
                          : o \in @},
            !.values = {IF x.option_id = optionId THEN [x EXCEPT !.deleted = TRUE] ELSE x
                         : x \in @}]

\* FindRentalOption with a fault: the option is looked up by its id alone
FindRentalOption_ByIdOnly(d, rentalId, optionId) ==
  {o \in d.options : o.id = optionId /\ ~o.deleted}

\* rentalOptionRepo.findOne({ where: { id: optionId, rental_id: rentalId } })
\* of deleteOption
FindRentalOption(d, rentalId, optionId) ==
  {o \in RentalOptions(d, rentalId) : o.id = optionId}

\* RentalService.deleteOption(rentalId, optionId), the body given to
\* atomicPhase_
RentalService_deleteOption(d, rentalId, optionId) ==
  IF FindRental(d, rentalId) = {} THEN Fail("NotFound", d, <<>>)
  ELSE
    LET variants == RentalVariants(d, rentalId)
        found == FindRentalOption(d, rentalId, optionId)
    IN IF found = {} THEN Ok(d, <<>>, NoId)
       ELSE IF variants # {} /\ ~AllEqualFirst(d, variants, optionId)
       THEN Fail("InvalidData", d, <<>>)
       ELSE Ok(SoftRemoveOption(d, optionId),
               <<[name |-> "rental.updated", id |-> rentalId]>>, optionId)

\* the variants relation of a retrieved rental, as ids in the order of the
\* rows: queryRentalsWithIds writes variants.variant_rank into its order
\* argument but gives the query builder no ORDER BY, so the rows come in an
\* order the database chooses
RetrievedVariantOrders(d, rentalId) ==
  LET ids == {v.id : v \in RentalVariants(d, rentalId)}
  IN {f \in [1..Cardinality(ids) -> ids] :
        \A i, j \in DOMAIN f : i # j => f[i] # f[j]}

\* RentalService.reorderVariants(rentalId, variantOrder), the body given to
\* atomicPhase_.  rentalRepo.save(rental) writes no column of a variant that
\* is still in the collection; a variant left out of the collection would
\* get rental_id null, which the column does not allow.
RentalService_reorderVariants(d, rentalId, variantOrder) ==
  IF FindRental(d, rentalId) = {} THEN Fail("NotFound", d, <<>>)
  ELSE
    LET ids == {v.id : v \in RentalVariants(d, rentalId)}
    IN IF Cardinality(ids) # Len(variantOrder) THEN Fail("InvalidData", d, <<>>)
       ELSE IF \E i \in DOMAIN variantOrder : variantOrder[i] \notin ids
       THEN Fail("InvalidData", d, <<>>)
       ELSE IF {variantOrder[i] : i \in DOMAIN variantOrder} # ids
       THEN Fail("QueryFailedError", d, <<>>)
       ELSE Ok(d, <<[name |-> "rental.updated", id |-> rentalId]>>, variantOrder)

\* SoftRemoveRental with a fault: the rental row alone is soft-removed
SoftRemoveRental_RentalOnly(d, rentalId) ==
  [d EXCEPT !.rentals = {IF x.id = rentalId THEN [x EXCEPT !.deleted = TRUE] ELSE x
                           : x \in @}]

\* rentalRepo.softRemove(rental) of a rental loaded with variants,
\* variants.prices and variants.options: the soft-remove cascades to them;
\* the options of the rental are not loaded and have no cascade
SoftRemoveRental(d, rentalId) ==
  LET gone == {v.id : v \in RentalVariants(d, rentalId)}
      Mark(rows, Hit(_)) ==
        {IF Hit(x) /\ ~x.deleted THEN [x EXCEPT !.deleted = TRUE] ELSE x : x \in rows}
      IsRental(x) == x.id = rentalId
      IsVariant(x) == x.id \in gone
      OfVariant(x) == x.variant_id \in gone
  IN [d EXCEPT !.rentals = Mark(@, IsRental),
               !.variants = Mark(@, IsVariant),
               !.values = Mark(@, OfVariant),
               !.prices = Mark(@, OfVariant)]

\* FindOneRental with a fault: soft-removed rentals are found too
FindOneRental_WithDeleted(d, rentalId) == {r \in d.rentals : r.id = rentalId}

\* rentalRepo.findOne({ id: rentalId }) of delete
FindOneRental(d, rentalId) == {r \in d.rentals : r.id = rentalId /\ ~r.deleted}

\* RentalService.retrieve(rentalId): the rental, or NotFound
RentalService_retrieve(d, rentalId) ==
  IF FindRental(d, rentalId) = {} THEN Fail("NotFound", d, <<>>)
  ELSE Ok(d, <<>>, rentalId)

\* RentalService.delete(rentalId), the body given to atomicPhase_
RentalService_delete(d, rentalId) ==
  IF FindOneRental(d, rentalId) = {} THEN Ok(d, <<>>, NoId)
  ELSE Ok(SoftRemoveRental(d, rentalId),
          <<[name |-> "rental.deleted", id |-> rentalId]>>, NoId)

\* ------------------------------------------------------- listAndCount
\* the ids of the rentals a selector matches, in the order of the rows (here
\* the order of the ids); the selector is a set of ids, where: { id: In(...) },
\* and soft-removed rentals match no selector
Matching(d, selector) ==
  LET ids == {r.id : r \in {x \in d.rentals : ~x.deleted /\ x.id \in selector}}
  IN [i \in 1..Cardinality(ids) |->
        CHOOSE x \in ids : Cardinality({y \in ids : y < x}) = i - 1]

\* skip(n).take(m) of a query
Page(rows, skip, take) ==
  SubSeq(rows, skip + 1, IF skip + take < Len(rows) THEN skip + take ELSE Len(rows))

\* queryRentals(options, true): getManyAndCount gives the page and the
\* number of rows the query matches without skip and take
queryRentals(d, selector, skip, take) ==
  [entities |-> Page(Matching(d, selector), skip, take),
   count |-> Len(Matching(d, selector))]

\* findByIds(ids, options): the rows of the ids that the options match, with
\* the skip and take of the options
findByIds(d, ids, selector, skip, take) ==
  Page(Matching(d, selector \cap ids), skip, take)

\* the rows a top-level relation of a rental joins: the variants or the
\* options of the rental that are not soft-removed
RelationRows(d, rentalId, toplevel) ==
  IF toplevel = "variants"
  THEN {v.id : v \in RentalVariants(d, rentalId)}
  ELSE {o.id : o \in RentalOptions(d, rentalId)}

\* queryRentalsWithIds(entityIds, groupedRelations): one query for each
\* top-level relation, each giving the rentals of the ids with that relation
\* joined; the results of the queries are flattened into one collection
queryRentalsWithIds(d, entityIds, groupedRelations) ==
  {[id |-> i, loaded |-> [g \in {toplevel} |-> RelationRows(d, i, toplevel)]] :
     i \in entityIds, toplevel \in groupedRelations}

\* merge({}, ...partials): one rental with the relations of all its partials
merge(id, partials) ==
  LET groups == UNION {DOMAIN x.loaded : x \in partials}
  IN [id |-> id,
      loaded |-> [g \in groups |->
                    UNION {x.loaded[g] : x \in {y \in partials : g \in DOMAIN y.loaded}}]]

\* a rental as a find without relations gives it
Plain(id) == [id |-> id, loaded |-> <<>>]

\* RentalRepository.findWithRelationsAndCount(relations, options), which
\* RentalService.listAndCount returns for a selector without q
findWithRelationsAndCount(d, relations, selector, skip, take) ==
  LET result == queryRentals(d, selector, skip, take)
      entitiesIds == {result.entities[i] : i \in DOMAIN result.entities}
      entitiesIdsWithRelations == queryRentalsWithIds(d, entitiesIds, relations)
      Merged(id) == merge(id, {x \in entitiesIdsWithRelations : x.id = id})
  IN IF entitiesIds = {} THEN [rentals |-> <<>>, count |-> result.count]
     ELSE IF relations = {}
     THEN LET toReturn == findByIds(d, entitiesIds, selector, skip, take)
          IN [rentals |-> [k \in DOMAIN toReturn |-> Plain(toReturn[k])], count |-> Len(toReturn)]
     ELSE [rentals |-> [k \in DOMAIN result.entities |-> Merged(result.entities[k])], count |-> result.count]

\* RentalRepository.findWithRelations(relations, ids): the rentals of the
\* ids, each merged with its relations; the rentals come grouped by id, in
\* no order that the caller uses
findWithRelations(d, relations, ids) ==
  LET entities == {Plain(r.id) : r \in {x \in d.rentals : ~x.deleted /\ x.id \in ids}}
      entitiesIds == {e.id : e \in entities}
      entitiesAndRelations ==
        queryRentalsWithIds(d, entitiesIds, relations) \cup entities
  IN {merge(i, {x \in entitiesAndRelations : x.id = i}) : i \in entitiesIds}

\* RentalRepository.getFreeTextSearchResultsAndCount(q, options, relations),
\* which RentalService.listAndCount returns for a selector with q; the
\* selector stands for the rentals that match both the options and q
getFreeTextSearchResultsAndCount(d, relations, selector, skip, take) ==
  LET results == Page(Matching(d, selector), skip, take)
      orderedResultsSet == {results[i] : i \in DOMAIN results}
      rentals == findWithRelations(d, relations, orderedResultsSet)
      Get(id) == CHOOSE x \in rentals : x.id = id
  IN [rentals |-> [k \in DOMAIN results |-> Get(results[k])], count |-> Len(Matching(d, selector))]

\* ------------------------------------------- RentalCollectionService
\* RentalCollectionService.retrieve(collectionId): the collection of the id
\* that is not soft-removed, or NotFound
RentalCollectionService_retrieve(d, collectionId) ==
  LET found == {c \in d.collections : c.id = collectionId /\ ~c.deleted}
  IN IF found = {} THEN Fail("NotFound", d, <<>>)
     ELSE Ok(d, <<>>, CHOOSE c \in found : TRUE)

\* RentalCollectionService.create(collection)
RentalCollectionService_create(d, title) ==
  LET id == NewId({c.id : c \in d.collections})
  IN Ok([d EXCEPT !.collections = @ \cup {[id |-> id, title |-> title, deleted |-> FALSE]}],
        <<>>, id)

\* RentalCollectionService.update(collectionId, update)
RentalCollectionService_update(d, collectionId, title) ==
  LET collection == RentalCollectionService_retrieve(d, collectionId)
  IN IF collection.err # "none" THEN Fail(collection.err, d, <<>>)
     ELSE Ok([d EXCEPT !.collections =
                (@ \ {collection.ret}) \cup {[collection.ret EXCEPT !.title = title]}],
             <<>>, collectionId)

\* RentalCollectionService.delete(collectionId): retrieve throws when the
\* collection is not found, so the branch for a collection that is not
\* there is never taken
RentalCollectionService_delete(d, collectionId) ==
  LET collection == RentalCollectionService_retrieve(d, collectionId)
  IN IF collection.err # "none" THEN Fail(collection.err, d, <<>>)
     ELSE Ok([d EXCEPT !.collections =
                (@ \ {collection.ret}) \cup {[collection.ret EXCEPT !.deleted = TRUE]}],
             <<>>, NoId)

\* ------------------------------------------------- POST /admin/rentals
\* newRental.options.find((newO) => newO.title === o.title)?.id: the id of
\* the first option of the new rental with the title.  The options come in
\* the order of the rows; whichever option of a title is first, every entry
\* of that title gets its id.
OptionIdOfTitle(d, rentalId, title) ==
  LET found == {o \in RentalOptions(d, rentalId) : o.title = title}
  IN IF found = {} THEN NoId
     ELSE (CHOOSE o \in found : \A x \in found : o.id <= x.id).id

\* v.options.map((o, index) => ({ ...o, option_id: optionIds[index] }))
WithOptionIds(values, optionIds) ==
  [index \in DOMAIN values |->
     [option_id |-> IF index \in DOMAIN optionIds THEN optionIds[index] ELSE NoId,
      value |-> values[index]]]

RECURSIVE CreateRequestVariants(_, _, _, _, _, _, _)
\* the creates of the variants of the request, from the variant of index i
\* (0-based) on, in the order of the list; ev are the events so far and
\* created the ids of the variants created so far
CreateRequestVariants(d, rentalId, optionIds, variants, i, ev, created) ==
  IF i >= Len(variants) THEN Ok(d, ev, created)
  ELSE
    LET v == variants[i + 1]
        r == RentalVariantService_create(d, rentalId,
               [options |-> WithOptionIds(v.options, optionIds),
                prices |-> v.prices, variant_rank |-> i])
    IN IF r.err # "none" THEN Fail(r.err, r.db, ev \o r.events)
       ELSE CreateRequestVariants(r.db, rentalId, optionIds, variants, i + 1,
                                  ev \o r.events, Append(created, r.ret))

\* the work of the handler inside entityManager.transaction: the rental is
\* created, then its variants; ret is the id of the rental and the ids of
\* the variants
PostRentalsWork(d, titles, variants) ==
  LET newRental == RentalService_create(d, titles)
      optionIds == [i \in DOMAIN titles |->
                      OptionIdOfTitle(newRental.db, newRental.ret, titles[i])]
      r == CreateRequestVariants(newRental.db, newRental.ret, optionIds, variants,
                                 0, newRental.events, <<>>)
  IN IF r.err # "none" THEN r
     ELSE Ok(r.db, r.events, [rental |-> newRental.ret, variants |-> r.ret])

\* PostRentals with a fault: the rental is committed before its variants are
\* created, each by a transaction of its own
PostRentals_RentalCommittedFirst(d, titles, variants) ==
  PostRentalsWork(d, titles, variants)

\* the handler of POST /admin/rentals: all of its work runs in one
\* entityManager.transaction, which a throw rolls back
PostRentals(d, titles, variants) ==
  LET work == PostRentalsWork(d, titles, variants)
  IN IF work.err = "none" THEN work ELSE [work EXCEPT !.db = d]

\* ---------------------------------------------------------------- inputs
\* the rental ids of calls: the ids in use and one that names no rental
RentalIdInputs(d) == {r.id : r \in d.rentals} \cup {MaxRentals + 1}

\* the variant ids of calls: the ids in use and one that names no variant
VariantIdInputs(d) == {v.id : v \in d.variants} \cup {MaxVariants + MaxL + 1}

\* the option ids of calls: the ids in use and one that names no option
OptionIdInputs(d) == {o.id : o \in d.options} \cup {MaxOptions + 1}

\* every list of at most MaxVariantOptions {option_id, value} entries over
\* the option ids ids
OptionLists(ids) ==
  UNION {[1..n -> [option_id : ids, value : Values]] : n \in 0..MaxVariantOptions}

\* the same lists with the option ids in increasing order
SortedOptionLists(ids) ==
  {l \in OptionLists(ids) :
     \A i, j \in DOMAIN l : i < j => l[i].option_id < l[j].option_id}

\* the prices of a variant input
PriceLists == {<<[region_id |-> r, amount |-> a]>> : r \in Regions, a \in Amounts}

\* the entries of the variants list of RentalService.update: a variant to
\* create, a variant to keep as it is, a variant to keep with one option
\* value set, and an id that names no variant
VariantEntries(d) ==
  {[id |-> NoId, keys |-> {"options", "prices"}, options |-> l, prices |-> p]
     : l \in SortedOptionLists({o.id : o \in d.options}), p \in PriceLists}
  \cup {[id |-> v, keys |-> {}, options |-> <<>>, prices |-> <<>>]
          : v \in VariantIdInputs(d)}
  \cup {[id |-> v.id, keys |-> {"options"}, options |-> l, prices |-> <<>>]
          : v \in d.variants,
            l \in {x \in SortedOptionLists({o.id : o \in d.options}) : Len(x) = 1}}

VariantLists(d, maxLen) == UNION {[1..n -> VariantEntries(d)] : n \in 0..maxLen}

\* the id lists of reorderVariants
VariantOrders(d) == UNION {[1..n -> VariantIdInputs(d)] : n \in 0..MaxVariants}

\* the variants of a request of POST /admin/rentals: lists of at most
\* MaxRequestVariants variants, each with a list of option values and a price
RequestVariants ==
  LET ValueLists == UNION {[1..n -> Values] : n \in 0..MaxVariantOptions}
      One == [options : ValueLists, prices : PriceLists]
  IN UNION {[1..n -> One] : n \in 0..MaxRequestVariants}

\* the selectors of listAndCount: the sets of rental ids
Selectors(d) == SUBSET RentalIdInputs(d)

\* the relations of listAndCount: none, the variants, or the variants and
\* the options
RelationLists == {{}, {"variants"}, {"variants", "options"}}

\* the tags lists of create and update
TagLists == {<<>>} \cup {<<v>> : v \in TagValues}
              \cup {<<v, v>> : v \in TagValues}

\* the images lists of create and update
ImageLists == {<<>>} \cup {<<u>> : u \in ImageUrls}

\* the rentalObjects of create: a title, and a thumbnail, a type, tags and
\* images that may be left out
RentalObjects ==
  {[keys |-> {"title", "thumbnail", "type", "tags", "images"},
    title |-> t, thumbnail |-> th, type |-> ty, tags |-> tg, images |-> im] :
     t \in RentalTitles, th \in {Undefined, "b.png"},
     ty \in {Undefined} \cup TypeValues, tg \in TagLists, im \in ImageLists}

\* a key of an update: absent, or present with one of the values
Choices(values, none) ==
  {[has |-> FALSE, val |-> none]} \cup {[has |-> TRUE, val |-> v] : v \in values}

\* the updates of the scalar columns, the type, the tags and the images of a
\* rental: each key is absent or present, and title is present with a value
\* or with undefined
DetailUpdates ==
  {[keys |-> {k \in {"title", "thumbnail", "type", "tags", "images"} :
                \/ k = "title" /\ t.has
                \/ k = "thumbnail" /\ th.has
                \/ k = "type" /\ ty.has
                \/ k = "tags" /\ tg.has
                \/ k = "images" /\ im.has},
    title |-> t.val, thumbnail |-> th.val, type |-> ty.val,
    tags |-> tg.val, images |-> im.val] :
     t \in Choices(RentalTitles \cup {Undefined}, Undefined) \ {[has |-> FALSE, val |-> Undefined]},
     th \in Choices(Thumbnails, Undefined),
     ty \in Choices(TypeValues, Undefined),
     tg \in Choices(TagLists, <<>>),
     im \in Choices(ImageLists, <<>>)}

\* the ids of collections that calls name: those of the rows and one more
CollectionIdInputs(d) == 1..(Cardinality(d.collections) + 1)

\* the rows stay within the bounds of the model
WithinBounds(d, maxRentals) ==
  /\ Cardinality(d.rentals) <= maxRentals
  /\ Cardinality(d.options) <= MaxOptions
  /\ Cardinality(d.variants) <= MaxVariants

\* --------------------------------------------------------------- actions
VariantIds(d) == {v.id : v \in d.variants}

\* what the last call was and how it ended: the error it threw, the numbers
\* of variants it removed and created, and whether its work had changed rows
\* when it ended
Called(op, body, res) ==
  [op |-> op, err |-> res.err,
   removed |-> Cardinality(VariantIds(db) \ VariantIds(res.db)),
   created |-> Cardinality(VariantIds(res.db) \ VariantIds(db)),
   dirty |-> [body.db EXCEPT !.removed = {}] # db]

\* the tables without rows
EmptyDb ==
  [rentals |-> {}, options |-> {}, variants |-> {}, values |-> {},
   prices |-> {}, removed |-> {}, collections |-> {},
   tags |-> {}, types |-> {}]

\* no request of POST /admin/rentals is being handled
NoRequest ==
  [phase |-> "idle", rental |-> NoId, tx |-> EmptyDb, creates |-> <<>>]

Init ==
  /\ db = EmptyDb
  /\ last = [op |-> "init", err |-> "none", removed |-> 0, created |-> 0,
             dirty |-> FALSE]
  /\ request = NoRequest

\* the state is kept within the bounds of the specification
Bounded(maxRentals, body) == WithinBounds(atomicPhase_(db, body).db, maxRentals)

\* a call from outside a transaction: its rows are committed or rolled back
Call(op, body) ==
  LET res == atomicPhase_(db, body)
  IN /\ db' = [res.db EXCEPT !.removed = {}]
     /\ last' = Called(op, body, res)
     /\ UNCHANGED request

CreateRental(titleLists, maxRentals) ==
  \E titles \in titleLists :
    LET body == RentalService_create(db, titles)
    IN /\ Bounded(maxRentals, body)
       /\ Call("create", body)

CreateVariant(maxRentals) ==
  \E r \in RentalIdInputs(db), l \in OptionLists(OptionIdInputs(db)), p \in PriceLists :
    LET body == RentalVariantService_create(db, r,
                  [options |-> l, prices |-> p, variant_rank |-> NoRank])
    IN /\ FindRental(db, r) = {} => l = <<>>
       /\ Bounded(maxRentals, body)
       /\ Call("createVariant", body)

UpdateVariant(maxRentals) ==
  \E v \in VariantIdInputs(db), l \in OptionLists(OptionIdInputs(db)) :
    LET body == RentalVariantService_update(db, v,
                  [keys |-> {"options"}, options |-> l, variant_rank |-> NoRank,
                   rental_id |-> NoId])
    IN /\ Len(l) <= 1
       /\ Bounded(maxRentals, body)
       /\ Call("updateVariant", body)

UpdateRental(maxLen, maxRentals) ==
  \E r \in RentalIdInputs(db), L \in VariantLists(db, maxLen) :
    LET body == RentalService_update(db, r, [keys |-> {"variants"}, variants |-> L])
    IN /\ FindRental(db, r) = {} => L = <<>>
       /\ Bounded(maxRentals, body)
       /\ Call("update", body)

AddOption(titles, maxRentals) ==
  \E r \in RentalIdInputs(db), t \in titles :
    LET body == RentalService_addOption(db, r, t)
    IN /\ Bounded(maxRentals, body)
       /\ Call("addOption", body)

UpdateOption(maxRentals) ==
  \E r \in RentalIdInputs(db), o \in OptionIdInputs(db), t \in Titles :
    LET body == RentalService_updateOption(db, r, o, t)
    IN /\ Bounded(maxRentals, body)
       /\ Call("updateOption", body)

DeleteOption(maxRentals) ==
  \E r \in RentalIdInputs(db), o \in OptionIdInputs(db) :
    LET body == RentalService_deleteOption(db, r, o)
    IN /\ Bounded(maxRentals, body)
       /\ Call("deleteOption", body)

ReorderVariants(maxRentals) ==
  \E r \in RentalIdInputs(db), variantOrder \in VariantOrders(db) :
    LET body == RentalService_reorderVariants(db, r, variantOrder)
    IN /\ FindRental(db, r) = {} => variantOrder = <<>>
       /\ Bounded(maxRentals, body)
       /\ Call("reorderVariants", body)

DeleteRental(maxRentals) ==
  \E r \in RentalIdInputs(db) :
    LET body == RentalService_delete(db, r)
    IN /\ Bounded(maxRentals, body)
       /\ Call("delete", body)

\* RentalVariantService.setRegionPrice called from outside a transaction
SetRegionPrice(maxRentals) ==
  \E v \in {x.id : x \in {y \in db.variants : ~y.deleted}},
     region \in PriceRegions, amount \in PriceAmounts :
    LET body == Ok(setRegionPrice(db, v, [region_id |-> region, amount |-> amount]),
                   <<>>, v)
    IN /\ Bounded(maxRentals, body)
       /\ Call("setRegionPrice", body)

\* a price list of the platform gets a price for a variant and a region: a
\* MoneyAmount row whose price_list_id is not null
AddPriceListPrice(maxRentals) ==
  \E v \in {x.id : x \in {y \in db.variants : ~y.deleted}},
     region \in PriceRegions, amount \in PriceAmounts :
    LET rows == {p \in db.prices : p.variant_id = v}
        body == Ok([db EXCEPT !.prices = @ \cup
                      {[id |-> PriceListId, variant_id |-> v,
                        region_id |-> region, amount |-> amount,
                        price_list_id |-> PriceListId, deleted |-> FALSE]}],
                   <<>>, v)
    IN /\ ~\E p \in rows : p.region_id = region /\ p.price_list_id = PriceListId
       /\ Bounded(maxRentals, body)
       /\ Call("addPriceListPrice", body)

\* the title lists and titles of the specifications about variants
VariantTitleLists == {<<>>, <<"Size">>, <<"Size", "Color">>}

VariantTitles == {"Size", "Color"}

\* every title list of RentalService.create
TitleLists == UNION {[1..n -> Titles] : n \in 0..MaxCreateOptions}

\* the title lists of the options of a request of POST /admin/rentals
RequestTitleLists ==
  {<<>>, <<"Size">>, <<"Size", "Color">>, <<"Size", "Size">>}

PostRentalsRequest(maxRentals) ==
  \E titles \in RequestTitleLists, variants \in RequestVariants :
    LET body == PostRentals(db, titles, variants)
    IN /\ Bounded(maxRentals, body)
       /\ Call("postRentals", body)

\* Spec: one rental, its options and variants under every operation on them
CreateRentalObjectCall(maxRentals) ==
  \E rentalObject \in RentalObjects :
    LET body == CreateRentalObject(db, rentalObject)
    IN /\ Bounded(maxRentals, body)
       /\ Cardinality(body.db.tags) <= MaxTags
       /\ Call("create", body)

UpdateRentalDetails(maxRentals) ==
  \E rentalId \in RentalIdInputs(db), update \in DetailUpdates :
    LET body == RentalService_update(db, rentalId, update)
    IN /\ Bounded(maxRentals, body)
       /\ Cardinality(body.db.tags) <= MaxTags
       /\ Call("update", body)

\* RentalVariantService.addOptionValue called from outside a transaction,
\* for a variant and an option that exist
AddOptionValue(maxRentals) ==
  \E v \in VariantIds(db), o \in {x.id : x \in db.options}, optionValue \in Values :
    LET body == Ok(addOptionValue(db, v, o, optionValue), <<>>, NoId)
    IN /\ Bounded(maxRentals, body)
       /\ Cardinality(body.db.values) <= MaxValues
       /\ Call("addOptionValue", body)

\* RentalVariantService.updateOptionValue called from outside a transaction
UpdateOptionValue(maxRentals) ==
  \E v \in VariantIdInputs(db), o \in OptionIdInputs(db), optionValue \in Values :
    LET body == updateOptionValue(db, v, o, optionValue)
    IN /\ Bounded(maxRentals, body)
       /\ Call("updateOptionValue", body)

\* RentalVariantService.deleteOptionValue called from outside a transaction
DeleteOptionValue(maxRentals) ==
  \E v \in VariantIdInputs(db), o \in OptionIdInputs(db) :
    LET body == deleteOptionValue(db, v, o)
    IN /\ Bounded(maxRentals, body)
       /\ Call("deleteOptionValue", body)

CreateCollection ==
  \E title \in Titles :
    LET body == RentalCollectionService_create(db, title)
    IN /\ Cardinality(body.db.collections) <= MaxCollections
       /\ Call("createCollection", body)

UpdateCollection ==
  \E collectionId \in CollectionIdInputs(db), title \in Titles :
    LET body == RentalCollectionService_update(db, collectionId, title)
    IN /\ body.db # db
       /\ Call("updateCollection", body)

DeleteCollection ==
  \E collectionId \in CollectionIdInputs(db) :
    LET body == RentalCollectionService_delete(db, collectionId)
    IN Call("deleteCollection", body)

Next ==
  \/ CreateRental(VariantTitleLists, MaxVariantRentals)
  \/ CreateVariant(MaxVariantRentals)
  \/ UpdateVariant(MaxVariantRentals)
  \/ UpdateRental(MaxShortL, MaxVariantRentals)
  \/ AddOption(VariantTitles, MaxVariantRentals)
  \/ DeleteOption(MaxVariantRentals)

Spec == Init /\ [][Next]_vars

\* SpecUpdate: RentalService.update over variants lists of up to MaxL entries
NextUpdate ==
  \/ CreateRental(VariantTitleLists, MaxVariantRentals)
  \/ CreateVariant(MaxVariantRentals)
  \/ UpdateRental(MaxL, MaxVariantRentals)

SpecUpdate == Init /\ [][NextUpdate]_vars

\* SpecOptions: the options of MaxRentals rentals and their titles
NextOptions ==
  \/ CreateRental(TitleLists, MaxRentals)
  \/ AddOption(Titles, MaxRentals)
  \/ UpdateOption(MaxRentals)
  \/ DeleteOption(MaxRentals)

SpecOptions == Init /\ [][NextOptions]_vars

\* SpecRental: rentals and their variants under reorderVariants and delete
NextRental ==
  \/ CreateRental(VariantTitleLists, MaxRentals)
  \/ CreateVariant(MaxRentals)
  \/ ReorderVariants(MaxRentals)
  \/ DeleteRental(MaxRentals)

SpecRental == Init /\ [][NextRental]_vars

\* SpecPrices: the prices of the variants of one rental with one option
NextPrices ==
  \/ CreateRental({<<"Size">>}, MaxVariantRentals)
  \/ CreateVariant(MaxVariantRentals)
  \/ SetRegionPrice(MaxVariantRentals)
  \/ AddPriceListPrice(MaxVariantRentals)

SpecPrices == Init /\ [][NextPrices]_vars

\* SpecPost: rentals created with their variants by POST /admin/rentals
NextPost ==
  \/ PostRentalsRequest(MaxRentals)
  \/ DeleteRental(MaxRentals)

SpecPost == Init /\ [][NextPost]_vars

\* the title lists of the options of a request whose variants are followed
\* step by step
SteppedTitleLists == {<<"Size">>, <<"Size", "Color">>}

\* the handler of POST /admin/rentals up to Promise.all: the transaction is
\* begun, the rental is created in it, and one create per variant of the
\* request is started; request.tx are the rows as the transaction sees them
PostRentalsBegin(maxRentals) ==
  \E titles \in SteppedTitleLists, variants \in RequestVariants :
    LET newRental == RentalService_create(db, titles)
        optionIds == [i \in DOMAIN titles |->
                        OptionIdOfTitle(newRental.db, newRental.ret, titles[i])]
    IN /\ request.phase = "idle"
       /\ WithinBounds(newRental.db, maxRentals)
       /\ Cardinality(db.variants) + Len(variants) <= MaxVariants
       /\ request' =
            [phase |-> "running", rental |-> newRental.ret, tx |-> newRental.db,
             creates |->
               [i \in DOMAIN variants |->
                  [pc |-> "load", loaded |-> EmptyDb, err |-> "none",
                   variant |-> [options |-> WithOptionIds(variants[i].options, optionIds),
                                prices |-> variants[i].prices,
                                variant_rank |-> i - 1]]]]
       /\ UNCHANGED <<db, last>>

\* rentalRepo.findOne of one of the creates: the query reads the rental, its
\* options and its variants as the transaction holds them now
LoadRental ==
  \E i \in DOMAIN request.creates :
    /\ request.phase = "running"
    /\ request.creates[i].pc = "load"
    /\ request' = [request EXCEPT !.creates[i].pc = "check",
                                  !.creates[i].loaded = request.tx]
    /\ UNCHANGED <<db, last>>

\* the rest of one of the creates: the checks on the rental as it was
\* loaded, then the save of the variant with its option values and prices
SaveVariant ==
  \E i \in DOMAIN request.creates :
    LET c == request.creates[i]
        res == CreateAfterLoad(c.loaded, request.tx, request.rental, c.variant)
    IN /\ request.phase = "running"
       /\ c.pc = "check"
       /\ request' = [request EXCEPT
                        !.tx = res.db,
                        !.creates[i].pc = IF res.err = "none" THEN "saved" ELSE "failed",
                        !.creates[i].err = res.err]
       /\ UNCHANGED <<db, last>>

\* the end of entityManager.transaction: the transaction is committed when
\* every create has saved its variant, and rolled back when one has thrown
PostRentalsEnd ==
  LET creates == request.creates
      failed == {i \in DOMAIN creates : creates[i].pc = "failed"}
      saved == {i \in DOMAIN creates : creates[i].pc = "saved"}
  IN /\ request.phase = "running"
     /\ failed # {} \/ saved = DOMAIN creates
     /\ db' = IF failed = {} THEN [request.tx EXCEPT !.removed = {}] ELSE db
     /\ last' = [op |-> "postRentalsStepped",
                 err |-> IF failed = {} THEN "none"
                         ELSE creates[CHOOSE i \in failed : \A j \in failed : i <= j].err,
                 removed |-> 0,
                 created |-> IF failed = {} THEN Cardinality(saved) ELSE 0,
                 dirty |-> FALSE]
     /\ request' = NoRequest

\* SpecStepped: POST /admin/rentals with the creates of its variants taking
\* their steps in every order
NextStepped ==
  \/ PostRentalsBegin(MaxRentals)
  \/ LoadRental
  \/ SaveVariant
  \/ PostRentalsEnd

SpecStepped == Init /\ [][NextStepped]_vars

\* SpecDetails: one rental with its columns, type, tags, images and variants
NextDetails ==
  \/ CreateRentalObjectCall(MaxVariantRentals)
  \/ UpdateRentalDetails(MaxVariantRentals)
  \/ CreateVariant(MaxVariantRentals)

SpecDetails == Init /\ [][NextDetails]_vars

\* SpecValues: one rental with an option, its variants and the option values
\* of the variants
NextValues ==
  \/ CreateRental({<<"Size">>}, MaxVariantRentals)
  \/ CreateVariant(MaxVariantRentals)
  \/ AddOptionValue(MaxVariantRentals)
  \/ UpdateOptionValue(MaxVariantRentals)
  \/ DeleteOptionValue(MaxVariantRentals)

SpecValues == Init /\ [][NextValues]_vars

\* SpecCollections: collections alone
NextCollections ==
  \/ CreateCollection
  \/ UpdateCollection
  \/ DeleteCollection

SpecCollections == Init /\ [][NextCollections]_vars

\* ================================================================ claims
LiveRentalIds(d) == {r.id : r \in {x \in d.rentals : ~x.deleted}}

\* the option-value combination of a variant: its values by option
Combination(d, variantId) ==
  {<<x.option_id, x.value>> : x \in VariantOptions(d, variantId)}

\* the option ids of a list of {option_id, value}
OptionIdsOf(l) == {l[i].option_id : i \in DOMAIN l}

\* the inputs of RentalVariantService.create the claims range over
VariantInputs(d) ==
  [options : OptionLists(OptionIdInputs(d)), prices : PriceLists,
   variant_rank : {NoRank}]

\* C1: no two non-deleted variants of a rental hold the same option-value
\* combination.
C1_NoDuplicateVariants ==
  \A r \in LiveRentalIds(db) :
    \A v, w \in RentalVariants(db, r) :
      v.id # w.id => Combination(db, v.id) # Combination(db, w.id)

\* C2: every non-deleted variant of a rental has a non-deleted option value
\* for each non-deleted option of the rental, and none for any other option.
C2_ValuesCoverOptions ==
  \A r \in LiveRentalIds(db) :
    \A v \in RentalVariants(db, r) :
      {x.option_id : x \in VariantOptions(db, v.id)}
        = {o.id : o \in RentalOptions(db, r)}

\* a variant with option values lost the values of a deleted option, or
\* gained the default value of an added one
C2_Witness ==
  /\ last.op \in {"deleteOption", "addOption"}
  /\ last.err = "none"
  /\ \E v \in db.variants :
       /\ VariantOptions(db, v.id) # {}
       /\ \E x \in db.values : x.variant_id = v.id /\ x.deleted

\* C3: in every reachable state, for every rental and variant input whose
\* option ids are not exactly the ids of the rental's options, create throws
\* InvalidData, has written no row and has emitted no event.
C3_InvalidOptionsRejected ==
  \A r \in LiveRentalIds(db), variant \in VariantInputs(db) :
    LET body == RentalVariantService_create(db, r, variant)
    IN OptionIdsOf(variant.options) # {o.id : o \in RentalOptions(db, r)}
       => /\ body.err = "InvalidData"
          /\ body.db = db
          /\ body.events = <<>>

C3_Witness ==
  /\ last.op = "createVariant"
  /\ last.err = "InvalidData"
  /\ ~last.dirty
  /\ last.created = 0

\* some variant of the rental has, for every option of the rental, the value
\* the list gives for that option
SameCombinationExists(d, rentalId, l) ==
  \E v \in RentalVariants(d, rentalId) :
    \A o \in RentalOptions(d, rentalId) :
      /\ FindOption(l, o.id) # <<>>
      /\ OptionValueOf(d, v.id, o.id) = Head(FindOption(l, o.id)).value

\* C4: in every reachable state, for every rental and every variant input
\* that gives one value per option of the rental, create throws
\* DuplicateError exactly when a variant of the rental has the same value for
\* every option of the rental, and then the rental's variants are unchanged.
C4_DuplicateIffSameCombination ==
  \A r \in LiveRentalIds(db), variant \in VariantInputs(db) :
    LET body == RentalVariantService_create(db, r, variant)
    IN OptionsMatch(RentalOptions(db, r), variant.options)
       => /\ (body.err = "DuplicateError")
               <=> SameCombinationExists(db, r, variant.options)
          /\ body.err = "DuplicateError"
               => RentalVariants(body.db, r) = RentalVariants(db, r)
          /\ body.err \in {"DuplicateError", "none"}

C4_Witness ==
  /\ last.op = "createVariant"
  /\ last.err = "DuplicateError"
  /\ \E r \in LiveRentalIds(db) : RentalOptions(db, r) # {}

\* the inputs of RentalService.update the claims range over
UpdateInputs(d) ==
  [keys : {{"variants"}}, variants : VariantLists(d, MaxL)]

\* the ids the entries of a variants list carry
IdsOf(L) == {L[i].id : i \in DOMAIN L} \ {NoId}

\* the positions of the entries without an id
NewAt(L) == {i \in DOMAIN L : L[i].id = NoId}

C6_RankIsIndex ==
  \A r \in LiveRentalIds(db), update \in UpdateInputs(db) :
    LET body == RentalService_update(db, r, update)
        L == update.variants
    IN (/\ body.err = "none"
        /\ \A i, j \in DOMAIN L : (i # j /\ L[i].id # NoId) => L[i].id # L[j].id)
       => \A i \in DOMAIN L :
            \A v \in body.db.variants :
              v.id = body.ret[i] => v.variant_rank = i - 1

\* C7: an update that throws leaves the rows as they were before the call.
C7_UpdateAtomic ==
  [][(last'.op = "update" /\ last'.err # "none") => db' = db]_vars

\* an update threw after its work had removed, created or changed a row
C7_Witness ==
  /\ last.op = "update"
  /\ last.err \in {"NotFound", "InvalidData", "DuplicateError"}
  /\ last.dirty
  /\ db.variants # {}

\* C8: addOption with the title of an option of the rental throws
\* DuplicateError and adds no option and no option value; so a second
\* addOption with the title of a successful first one throws.
C8_DuplicateTitleRejected ==
  \A r \in LiveRentalIds(db), t \in Titles :
    LET first == RentalService_addOption(db, r, t)
        second == RentalService_addOption(first.db, r, t)
    IN /\ (\E o \in RentalOptions(db, r) : o.title = t)
            => /\ first.err = "DuplicateError"
               /\ first.db = db
       /\ first.err = "none"
            => /\ second.err = "DuplicateError"
               /\ second.db.options = first.db.options
               /\ second.db.values = first.db.values

C8_Witness ==
  /\ last.op = "addOption"
  /\ last.err = "DuplicateError"
  /\ db.variants # {}

\* C9: after a successful addOption every variant the rental had holds
\* exactly one value for the new option, "Default Value", and the values
\* of the other options are unchanged.
C9_DefaultValueBackfilled ==
  \A r \in LiveRentalIds(db), t \in Titles :
    LET body == RentalService_addOption(db, r, t)
    IN body.err = "none"
       => /\ \A v \in RentalVariants(db, r) :
               LET rows == {x \in body.db.values :
                              x.variant_id = v.id /\ x.option_id = body.ret}
               IN /\ Cardinality(rows) = 1
                  /\ \A x \in rows : x.value = DefaultValue /\ ~x.deleted
          /\ {x \in body.db.values : x.option_id # body.ret} = db.values

C9_Witness ==
  /\ last.op = "addOption"
  /\ last.err = "none"
  /\ \E x \in db.values : x.value = DefaultValue /\ ~x.deleted

C11_DeleteOptionGuard ==
  \A r \in LiveRentalIds(db) :
    \A o \in RentalOptions(db, r) :
      LET body == RentalService_deleteOption(db, r, o.id)
          differ == \E v, w \in RentalVariants(db, r) :
                      OptionValueOf(db, v.id, o.id) # OptionValueOf(db, w.id, o.id)
      IN IF differ
         THEN body.err = "InvalidData" /\ body.db = db
         ELSE /\ body.err = "none"
              /\ RentalOptions(body.db, r) = RentalOptions(db, r) \ {o}
              /\ \A x \in body.db.values : x.option_id = o.id => x.deleted
              /\ {x \in body.db.values : x.option_id # o.id}
                   = {x \in db.values : x.option_id # o.id}
              /\ {x.id : x \in body.db.options} = {x.id : x \in db.options}
              /\ body.db.variants = db.variants

\* a deleteOption was refused on a rental with two variants
C11_Witness ==
  /\ last.op = "deleteOption"
  /\ last.err = "InvalidData"
  /\ Cardinality(db.variants) >= 2

\* C12: for a rental and an option id that names no non-deleted option of
\* it, deleteOption returns, changes no row and emits no event; and after a
\* deleteOption that returned, a second one with the same arguments returns,
\* changes no row and emits no event.
C12_DeleteOptionIdempotent ==
  \A r \in LiveRentalIds(db), o \in OptionIdInputs(db) :
    LET first == RentalService_deleteOption(db, r, o)
        second == RentalService_deleteOption(first.db, r, o)
    IN /\ (o \notin {x.id : x \in RentalOptions(db, r)})
            => first.err = "none" /\ first.db = db /\ first.events = <<>>
       /\ first.err = "none"
            => second.err = "none" /\ second.db = first.db /\ second.events = <<>>

\* a deleteOption changed nothing while a deleted option and a live option
\* of another rental were there to be named
C12_Witness ==
  /\ last.op = "deleteOption"
  /\ last.err = "none"
  /\ ~last.dirty
  /\ \E o \in db.options : o.deleted
  /\ \E r \in LiveRentalIds(db) :
       \E o \in db.options : ~o.deleted /\ o.rental_id # r

\* C13: updateOption throws NotFound and changes no option when the title
\* equals, without regard to case, the title of another option of the
\* rental, or when the option id names no option of the rental; otherwise
\* the title of the option becomes the given title.
C13_UpdateOptionContract ==
  \A r \in LiveRentalIds(db), o \in OptionIdInputs(db), t \in Titles :
    LET body == RentalService_updateOption(db, r, o, t)
        collides == \E x \in RentalOptions(db, r) :
                      x.id # o /\ toUpperCase(x.title) = toUpperCase(t)
        belongs == o \in {x.id : x \in RentalOptions(db, r)}
    IN IF collides \/ ~belongs
       THEN body.err = "NotFound" /\ body.db.options = db.options
       ELSE /\ body.err = "none"
            /\ \E x \in RentalOptions(body.db, r) : x.id = o /\ x.title = t

\* C14: reorderVariants throws InvalidData when the list is not as long as
\* the rental has variants or names an id that is no variant of the rental;
\* otherwise, for a list that names every variant once, it returns and a
\* following retrieve of the rental gives the variants in the order of the
\* list.
C14_ReorderPersisted ==
  \A r \in LiveRentalIds(db), variantOrder \in VariantOrders(db) :
    LET body == RentalService_reorderVariants(db, r, variantOrder)
        ids == {v.id : v \in RentalVariants(db, r)}
        named == {variantOrder[i] : i \in DOMAIN variantOrder}
    IN /\ (Len(variantOrder) # Cardinality(ids) \/ ~(named \subseteq ids))
            => body.err = "InvalidData" /\ body.db = db
       /\ (Len(variantOrder) = Cardinality(ids) /\ named = ids)
            => /\ body.err = "none"
               /\ \A order \in RetrievedVariantOrders(body.db, r) :
                    order = variantOrder

\* C15: the first delete of a rental returns, soft-removes the rental and
\* emits one rental.deleted event; a second delete of it returns, changes no
\* row and emits no event; so does a delete of an id that names no rental.
C15_DeleteIdempotent ==
  \A r \in RentalIdInputs(db) :
    LET first == RentalService_delete(db, r)
        second == RentalService_delete(first.db, r)
    IN /\ first.err = "none" /\ second.err = "none"
       /\ second.db = first.db /\ second.events = <<>>
       /\ FindRental(first.db, r) = {}
       /\ IF FindRental(db, r) # {}
          THEN /\ first.events = <<[name |-> "rental.deleted", id |-> r]>>
               /\ first.db.rentals =
                    {IF x.id = r THEN [x EXCEPT !.deleted = TRUE] ELSE x : x \in db.rentals}
          ELSE first.db = db /\ first.events = <<>>

\* a delete changed nothing in a state with a rental already deleted, after
\* which a rental with variants is still there
C15_Witness ==
  /\ last.op = "delete"
  /\ last.err = "none"
  /\ ~last.dirty
  /\ \E r \in db.rentals : r.deleted
  /\ \E v \in db.variants : v.deleted

\* the default prices of a variant for a region: the rows without a price list
DefaultRegionPrices(d, variantId, region) ==
  {p \in d.prices : /\ p.variant_id = variantId /\ p.region_id = region
                    /\ p.price_list_id = NoId /\ ~p.deleted}

\* C16: a variant has at most one default price per region; and
\* setRegionPrice for a variant and a region with amount a1 and then with
\* amount a2 leaves one default price for the pair, of amount a2, and leaves
\* the rows of price lists and the default prices of other pairs as they were.
C16_RegionPriceUpsert ==
  /\ \A v \in db.variants, region \in PriceRegions :
       Cardinality(DefaultRegionPrices(db, v.id, region)) <= 1
  /\ \A v \in {x \in db.variants : ~x.deleted}, region \in PriceRegions,
        a1 \in PriceAmounts, a2 \in PriceAmounts :
       LET d1 == setRegionPrice(db, v.id, [region_id |-> region, amount |-> a1])
           d2 == setRegionPrice(d1, v.id, [region_id |-> region, amount |-> a2])
           Others(d) == {p \in d.prices :
                           \/ p.price_list_id # NoId
                           \/ p.variant_id # v.id
                           \/ p.region_id # region}
       IN /\ Cardinality(DefaultRegionPrices(d1, v.id, region)) = 1
          /\ Cardinality(DefaultRegionPrices(d2, v.id, region)) = 1
          /\ \A p \in DefaultRegionPrices(d1, v.id, region) : p.amount = a1
          /\ \A p \in DefaultRegionPrices(d2, v.id, region) : p.amount = a2
          /\ Others(d1) = Others(db)
          /\ Others(d2) = Others(db)

\* setRegionPrice has changed the amount of the default price a variant was
\* created with, next to a price of a price list for the same region
C16_Witness ==
  /\ last.op = "setRegionPrice"
  /\ last.err = "none"
  /\ \E p, q \in db.prices :
       /\ p.variant_id = q.variant_id /\ p.region_id = "reg" /\ q.region_id = "reg"
       /\ p.price_list_id = NoId /\ p.amount = 20
       /\ q.price_list_id = PriceListId /\ q.amount = 10

\* C18 as stated: when the creation of a variant of the request throws after
\* the rental was created, the rental and its options stay persisted.
C18_RentalKeptOnVariantFailure ==
  \A titles \in RequestTitleLists, variants \in RequestVariants :
    LET res == PostRentals(db, titles, variants)
        id == NewId({r.id : r \in db.rentals})
    IN res.err # "none"
       => /\ \E r \in res.db.rentals : r.id = id
          /\ Cardinality(RentalOptions(res.db, id)) = Len(titles)

\* C18, amended: the rental and its variants are written by one transaction;
\* when the creation of a variant of the request throws, no row of the
\* rental, of its options or of its variants is persisted.
C18_RentalRolledBackOnVariantFailure ==
  \A titles \in RequestTitleLists, variants \in RequestVariants :
    LET res == PostRentals(db, titles, variants)
    IN res.err # "none" => res.db = db

\* a request failed in the creation of a variant, after other rentals had
\* been created with their variants
C18_Witness ==
  /\ last.op = "postRentals"
  /\ last.err = "InvalidData"
  /\ last.created = 0
  /\ db.variants # {}

\* the options of a rental in the order of their creation
OptionIdsInOrder(d, rentalId) ==
  LET ids == {o.id : o \in RentalOptions(d, rentalId)}
  IN [i \in 1..Cardinality(ids) |->
        CHOOSE x \in ids : Cardinality({y \in ids : y < x}) = i - 1]

\* C19: for a request whose variants each give one value per option of the
\* request and differ from each other in their values, the request is
\* carried out and the i-th value of every variant is persisted for the
\* option created from the i-th option of the request, whatever the titles
\* of the options, equal titles included.
C19_ValuesFollowOptionOrder ==
  \A titles \in RequestTitleLists, variants \in RequestVariants :
    LET res == PostRentals(db, titles, variants)
    IN (/\ \A k \in DOMAIN variants : Len(variants[k].options) = Len(titles)
        /\ \A k, m \in DOMAIN variants :
             k # m => variants[k].options # variants[m].options
        /\ variants # <<>>)
       => /\ res.err = "none"
          /\ \A k \in DOMAIN variants, i \in DOMAIN titles :
               \E x \in VariantOptions(res.db, res.ret.variants[k]) :
                 /\ x.option_id = OptionIdsInOrder(res.db, res.ret.rental)[i]
                 /\ x.value = variants[k].options[i]

\* C20: for every selector, skip, take and relations, the count that
\* listAndCount returns is the number of rentals the selector matches.
C20_CountIsTotal ==
  \A selector \in Selectors(db), skip \in 0..MaxSkip, take \in 1..MaxTake,
     relations \in RelationLists :
    findWithRelationsAndCount(db, relations, selector, skip, take).count
      = Len(Matching(db, selector))

\* the ids of a list of rentals
RowIds(rows) == [k \in DOMAIN rows |-> rows[k].id]

\* C21: on the plain path and on the free-text path of listAndCount the list
\* holds the ids of the id-selection query, each once and in the order of the
\* query, and both paths give the same rental the same relations, for every
\* number of top-level relations.
C21_ListPathsAgree ==
  \A selector \in Selectors(db), skip \in 0..MaxSkip, take \in 1..MaxTake,
     relations \in RelationLists :
    LET ids == queryRentals(db, selector, skip, take).entities
        plain == findWithRelationsAndCount(db, relations, selector, skip, take).rentals
        free == getFreeTextSearchResultsAndCount(db, relations, selector, skip, take).rentals
    IN /\ RowIds(plain) = ids
       /\ RowIds(free) = ids
       /\ plain = free

\* C22: deleting a collection id that names no collection that is not
\* soft-removed (never created, or deleted before) succeeds and changes
\* nothing.
C22_CollectionDeleteIdempotent ==
  \A collectionId \in CollectionIdInputs(db) :
    LET res == atomicPhase_(db, RentalCollectionService_delete(db, collectionId))
    IN (\A c \in db.collections : c.id = collectionId => c.deleted) =>
         /\ res.err = "none"
         /\ res.db = db

\* C23: there is at most one RentalTag row for each value and at most one
\* RentalType row for each value.
C23_TagAndTypeValuesUnique ==
  /\ \A t, u \in db.tags : t.value = u.value => t.id = u.id
  /\ \A t, u \in db.types : t.value = u.value => t.id = u.id

\* the row of a rental
RentalRow(d, rentalId) == CHOOSE r \in d.rentals : r.id = rentalId

\* what an update leaves alone when it supplies no tags, images, type or
\* variants: the tags, the images and the type of the rental, and its
\* variants with their option values and prices
RelationsKept(d, e, rentalId, update) ==
  /\ "tags" \notin update.keys =>
       RentalRow(e, rentalId).tags = RentalRow(d, rentalId).tags
  /\ "images" \notin update.keys =>
       RentalRow(e, rentalId).images = RentalRow(d, rentalId).images
  /\ "type" \notin update.keys =>
       RentalRow(e, rentalId).type_id = RentalRow(d, rentalId).type_id
  /\ "variants" \notin update.keys =>
       /\ e.variants = d.variants
       /\ e.values = d.values
       /\ e.prices = d.prices

\* C25 as stated: an update keeps every scalar column whose key is absent or
\* undefined, sets every scalar column whose key has a defined value, falsy
\* values included, and keeps the tags, images, type and variants that it
\* does not supply.
C25_PartialUpdate ==
  \A rentalId \in LiveRentalIds(db), update \in DetailUpdates :
    LET res == atomicPhase_(db, RentalService_update(db, rentalId, update))
        old == RentalRow(db, rentalId)
        new == RentalRow(res.db, rentalId)
    IN /\ res.err = "none"
       /\ new.title = IF isDefined(Given(update, "title")) THEN update.title
                      ELSE old.title
       /\ new.thumbnail = IF isDefined(Given(update, "thumbnail")) THEN update.thumbnail
                          ELSE old.thumbnail
       /\ RelationsKept(db, res.db, rentalId, update)

\* C25, amended: as C25, but a thumbnail that the update does not give
\* becomes the first image of the update when the rental has no thumbnail
\* and the update supplies images; otherwise it is kept.
C25_PartialUpdateWithThumbnail ==
  \A rentalId \in LiveRentalIds(db), update \in DetailUpdates :
    LET res == atomicPhase_(db, RentalService_update(db, rentalId, update))
        old == RentalRow(db, rentalId)
        new == RentalRow(res.db, rentalId)
    IN /\ res.err = "none"
       /\ new.title = IF isDefined(Given(update, "title")) THEN update.title
                      ELSE old.title
       /\ new.thumbnail =
            IF isDefined(Given(update, "thumbnail")) THEN update.thumbnail
            ELSE IF /\ Falsy(old.thumbnail)
                    /\ "images" \in update.keys
                    /\ update.images # <<>>
                 THEN update.images[1]
                 ELSE old.thumbnail
       /\ RelationsKept(db, res.db, rentalId, update)

\* an update has run on a rental that has tags and a variant, and the rental
\* has an empty title and the first image as its thumbnail
C25_Witness ==
  /\ last.op = "update"
  /\ last.err = "none"
  /\ \E r \in db.rentals :
       /\ r.title = ""
       /\ r.thumbnail \in ImageUrls
       /\ r.tags # {}
       /\ RentalVariants(db, r.id) # {}

\* after the delete of a rental, in the rows e: the rental, its variants and
\* the option values and prices of the variants, as they were in the rows d,
\* are soft-removed, and retrieve does not find the rental
RentalAndVariantsGone(d, e, rentalId) ==
  LET gone == {v.id : v \in RentalVariants(d, rentalId)}
  IN /\ RentalService_retrieve(e, rentalId).err = "NotFound"
     /\ \A r \in e.rentals : r.id = rentalId => r.deleted
     /\ \A v \in e.variants : v.id \in gone => v.deleted
     /\ \A x \in e.values : x.variant_id \in gone => x.deleted
     /\ \A x \in e.prices : x.variant_id \in gone => x.deleted
     /\ {v.id : v \in e.variants} = {v.id : v \in d.variants}

\* C24 as stated: after the delete of an existing rental, the rental, its
\* variants, their prices and option values and the options of the rental
\* are soft-removed, and retrieve fails with NotFound.
C24_DeleteRemovesOptions ==
  \A rentalId \in LiveRentalIds(db) :
    LET res == atomicPhase_(db, RentalService_delete(db, rentalId))
    IN /\ res.err = "none"
       /\ RentalAndVariantsGone(db, res.db, rentalId)
       /\ RentalOptions(res.db, rentalId) = {}

\* C24, amended: after the delete of an existing rental, the rental, its
\* variants and their prices and option values are soft-removed and retrieve
\* fails with NotFound; the options of the rental are left as they were.
C24_DeleteKeepsOptions ==
  \A rentalId \in LiveRentalIds(db) :
    LET res == atomicPhase_(db, RentalService_delete(db, rentalId))
    IN /\ res.err = "none"
       /\ RentalAndVariantsGone(db, res.db, rentalId)
       /\ res.db.options = db.options

\* a delete has soft-removed a rental with a variant, an option value and a
\* price, and an option of the rental is still there
C24_Witness ==
  /\ last.op = "delete"
  /\ last.dirty
  /\ \E r \in db.rentals :
       /\ r.deleted
       /\ RentalOptions(db, r.id) # {}
       /\ \E v \in db.variants :
            /\ v.rental_id = r.id /\ v.deleted
            /\ \E x \in db.values : x.variant_id = v.id /\ x.deleted
            /\ \E x \in db.prices : x.variant_id = v.id /\ x.deleted

\* C29: a reorderVariants that returns leaves the rental the variants it
\* had, and a list as long as the rental has variants that names only
\* variants of the rental but names one twice is rejected with InvalidData.
C29_ReorderKeepsVariants ==
  \A r \in LiveRentalIds(db), variantOrder \in VariantOrders(db) :
    LET body == RentalService_reorderVariants(db, r, variantOrder)
        res == atomicPhase_(db, body)
        ids == {v.id : v \in RentalVariants(db, r)}
        named == {variantOrder[i] : i \in DOMAIN variantOrder}
    IN /\ res.err = "none" =>
            /\ RentalVariants(res.db, r) = RentalVariants(db, r)
            /\ named = ids
       /\ (Len(variantOrder) = Cardinality(ids) /\ named \subseteq ids /\ named # ids)
            => res.err = "InvalidData"

\* C26: no variant has two option values that are not soft-removed for the
\* same option.
C26_OneValuePerOption ==
  \A x, y \in db.values :
    (~x.deleted /\ ~y.deleted /\ x.variant_id = y.variant_id /\ x.option_id = y.option_id)
      => x = y

\* C28: RentalVariantService.create for a rental id that names no rental that
\* is not soft-removed fails with NotFound, writes no row and emits no event.
C28_CreateForMissingRental ==
  \A rentalId \in RentalIdInputs(db), variant \in VariantInputs(db) :
    LET res == atomicPhase_(db, RentalVariantService_create(db, rentalId, variant))
    IN FindRental(db, rentalId) = {} =>
         /\ res.err = "NotFound"
         /\ res.db = db
         /\ res.events = <<>>

\* C30: after POST /admin/rentals, whatever the order in which the creates
\* of the request's variants load the rental and save, no rental with
\* options has two variants with the same value for every option.
C30_NoTwoIdenticalVariants ==
  \A r \in LiveRentalIds(db) :
    \A v1, v2 \in RentalVariants(db, r) :
      (v1.id # v2.id /\ RentalOptions(db, r) # {}) =>
        \E o \in RentalOptions(db, r) :
          OptionValueOf(db, v1.id, o.id) # OptionValueOf(db, v2.id, o.id)

====
